---- MODULE Spec2Model ----
(***************************************************************************)
(* ONNXWhileOp (caffe2/operators/onnx_while_op.h): the loop controller     *)
(* that runs a body net while a trip count and/or a condition allow it,    *)
(* threads loop-carried dependencies through workspace blobs and           *)
(* accumulates the scan outputs of every iteration.                        *)
(*                                                                         *)
(* One behaviour is the life of one operator instance: construction, then  *)
(* a bounded number of RunOnDevice invocations.  RunOnDevice is cut at the *)
(* call of the body net: Invoke (lines 74-149), RunBody (lines 152-156),   *)
(* AfterRun (lines 157-202), Finish (lines 198-217).                       *)
(*                                                                         *)
(* Tensors are records [dims, data]: dims is the shape, data the allocated *)
(* storage in elements (Len(data) is the capacity, the first Prod(dims)    *)
(* elements are the logical content).  Booleans stored in tensors are 0/1. *)
(***************************************************************************)
EXTENDS Integers, Sequences, FiniteSets, TLC

\* ---------------------------------------------------------------- bounds
MaxInvocations == 2     \* RunOnDevice calls per operator instance
MaxRuns == 3            \* body net runs per operator instance, and the
                        \* largest max_trip_count a caller passes

\* ------------------------------------------------------- program constants
GrowthFactor == 2

\* ------------------------------------------------------------- Tensor
RECURSIVE Prod(_)
Prod(d) == IF d = <<>> THEN 1 ELSE Head(d) * Prod(Tail(d))

\* storage that was allocated and never written
Uninit == 0 - 1

Fill(n) == [p \in 1..n |-> Uninit]

\* a blob's tensor before anything was stored in it
NewTensor == [dims |-> <<0>>, data |-> <<>>]

\* a tensor holding exactly the elements d with shape s
Mk(s, d) == [dims |-> s, data |-> d]

Scalar(v) == Mk(<<1>>, <<v>>)

size(t) == Prod(t.dims)

\* the logical content: what a reader of the tensor sees
Content(t) == SubSeq(t.data, 1, size(t))

Logical(t) == Mk(t.dims, Content(t))

\* Tensor::Resize: new shape; storage is kept when it is large enough and
\* replaced by fresh storage otherwise (no content guarantee)
Resize(t, d) ==
    [dims |-> d,
     data |-> IF Prod(d) <= Len(t.data) THEN t.data ELSE Fill(Prod(d))]

\* Tensor::CopyFrom: full content + shape copy
CopyFrom(t, src) ==
    LET r == Resize(t, src.dims)
    IN [dims |-> src.dims,
        data |-> Content(src) \o SubSeq(r.data, size(src) + 1, Len(r.data))]

Max(a, b) == IF a >= b THEN a ELSE b

\* Tensor::Extend: grow the leading dimension by num; when the storage is too
\* small it is reallocated for a leading dimension grown by the growth
\* factor, keeping the logical content
Extend(t, num, growth) ==
    LET newDims == <<Head(t.dims) + num>> \o Tail(t.dims)
        newSize == Prod(newDims)
        capLead == Max(Head(newDims), Head(t.dims) * growth)
        newCap  == capLead * Prod(Tail(t.dims))
    IN IF newSize <= Len(t.data)
       THEN [dims |-> newDims, data |-> t.data]
       ELSE [dims |-> newDims,
             data |-> Content(t) \o Fill(newCap - size(t))]

\* memcpy of the elements src to element offset off of t's storage; the part
\* that falls behind the storage does not land in the tensor
RawWrite(t, off, src) ==
    [dims |-> t.dims,
     data |-> [p \in 1..Len(t.data) |->
                 IF p > off /\ p <= off + Len(src) THEN src[p - off]
                 ELSE t.data[p]]]

\* the memcpy runs past the end of the storage
Overruns(t, off, src) == off + Len(src) > Len(t.data)

B2I(b) == IF b THEN 1 ELSE 0

\* ------------------------------------------------------------ body nets
\* The NetDefs the operator is constructed with: the declared inputs
\* [iteration number, condition, loop-carried deps] and outputs
\* [condition, loop-carried deps, scan outputs] of the body, and what its
\* operators compute for every loop-carried dependency ("inc": the value
\* plus one, "same": the value, "grow": the value with one more element).
BodyNets ==
    { [external_input  |-> <<"i", "cond", "l1">>,
       external_output |-> <<"cond_new", "o1", "s1">>, op |-> "inc"],
      [external_input  |-> <<"i", "cond", "l1">>,
       external_output |-> <<"cond_new", "o1", "s1">>, op |-> "same"],
      [external_input  |-> <<"i", "cond", "l1">>,
       external_output |-> <<"cond_new", "l1", "s1">>, op |-> "inc"],
      [external_input  |-> <<"i", "cond">>,
       external_output |-> <<"cond_new", "s1", "s2">>, op |-> "inc"],
      [external_input  |-> <<"i", "cond", "l1", "l2">>,
       external_output |-> <<"cond_new", "l2", "o2">>, op |-> "inc"],
      [external_input  |-> <<"i", "cond", "l1", "l2">>,
       external_output |-> <<"cond_new", "l2", "l1">>, op |-> "inc"],
      [external_input  |-> <<"i", "cond", "l1">>,
       external_output |-> <<"cond_new", "o1">>, op |-> "grow"],
      [external_input  |-> <<"i", "cond", "l1">>,
       external_output |-> <<"cond_new">>, op |-> "inc"] }

Range(f) == {f[x] : x \in DOMAIN f}

\* per-iteration shapes a body emits for a scan output
Shapes == {<<1>>, <<2>>}

VARIABLES
    body_net_def_,        \* the NetDef of the body (fixed at construction)
    has_trip_count_,      \* operator argument
    has_cond_,            \* operator argument
    ws_,                  \* the Workspace: blob name -> tensor
    Input,                \* the operator's inputs of the current invocation
    Output,               \* the operator's output tensors, Output[k+1] = Output(k)
    scan_outputs_sizes,   \* local of RunOnDevice
    pc,                   \* "idle", "loop", "ran", "done", "failed", "crashed"
    err,                  \* why the invocation failed
    overrun,              \* a memcpy of this invocation ran past its target
    hist,                 \* the body runs of the current invocation
    invocations,          \* RunOnDevice calls so far
    runs                  \* body net runs so far

vars == <<body_net_def_, has_trip_count_, has_cond_, ws_, Input, Output,
          scan_outputs_sizes, pc, err, overrun, hist, invocations, runs>>

external_input == body_net_def_.external_input
external_output == body_net_def_.external_output

\* the tensors the constructor keeps pointers to
iteration_var_ == external_input[1]
input_condition_var_ == external_input[2]
condition_var_ == external_output[1]
lcd_tensors_ == SubSeq(external_input, 3, Len(external_input))

\* the number of loop-carried deps and of scan outputs the operator is
\* declared with (its outputs are the N final values and the K scan outputs)
NumLcd == Len(external_input) - 2
NumOutputs == Max(NumLcd, Len(external_output) - 1)

\* store the single element v in tensor t (Resize(1), *mutable_data() = v)
SetScalar(t, v) == RawWrite(Resize(t, <<1>>), 0, <<v>>)

iteration_var == ws_[iteration_var_].data[1]

Init ==
    /\ body_net_def_ \in BodyNets
    /\ has_trip_count_ \in BOOLEAN
    /\ has_cond_ \in BOOLEAN
    /\ ws_ = [n \in Range(body_net_def_.external_input)
                    \cup Range(body_net_def_.external_output) |-> NewTensor]
    /\ Input = [max_trip_count |-> 0, first_iter_condition |-> FALSE,
                lcds |-> <<>>]
    /\ Output = [k \in 1..NumOutputs |-> NewTensor]
    /\ scan_outputs_sizes = <<>>
    /\ pc = "idle"
    /\ err = "none"
    /\ overrun = FALSE
    /\ hist = <<>>
    /\ invocations = 0
    /\ runs = 0

\* ------------------------------------------------- RunOnDevice, lines 74-149
\* the inputs a caller may pass: max trip count, first-iteration condition
\* and n scalar loop-carried values, n being the number the body declares or
\* one more; the j-th value is 10 j plus the number of earlier invocations,
\* so that every invocation passes other values
Inputs ==
    { [max_trip_count |-> m, first_iter_condition |-> c,
       lcds |-> [j \in 1..n |-> Scalar(invocations + 10 * j)]] :
         m \in (0 - 1)..MaxRuns, c \in BOOLEAN,
         n \in {NumLcd, NumLcd + 1} }

\* CAFFE_ENFORCE_EQ(num_loop_carried_deps + 2, external_input().size())
InputArityOk(num_loop_carried_deps) ==
    num_loop_carried_deps + 2 = Len(external_input)

num_scan_outputs(num_loop_carried_deps) ==
    Len(external_output) - num_loop_carried_deps - 1

\* faulty variant: the number of scan outputs is not checked
OutputArityOk_any(num_loop_carried_deps) == TRUE

\* CAFFE_ENFORCE_GE(num_scan_outputs, 0)
OutputArityOk(num_loop_carried_deps) ==
    num_scan_outputs(num_loop_carried_deps) >= 0

\* copy initial loop-carried dependencies, from the i-th on
RECURSIVE CopyInitial(_, _, _)
CopyInitial(w, lcds, i) ==
    IF i > Len(lcds) THEN w
    ELSE CopyInitial(
           [w EXCEPT ![lcd_tensors_[i]] = CopyFrom(w[lcd_tensors_[i]], lcds[i])],
           lcds, i + 1)

\* iteration variable := 0, input condition := first_iter_condition,
\* output condition resized to one element
InitLoopState(w, first_iter_condition) ==
    [w EXCEPT ![iteration_var_] = SetScalar(w[iteration_var_], 0),
              ![input_condition_var_] =
                   SetScalar(w[input_condition_var_], B2I(first_iter_condition)),
              ![condition_var_] = Resize(w[condition_var_], <<1>>)]

\* faulty variant: the scan outputs are not reset
AllocScanOutputs_none(out, num_loop_carried_deps) == out

\* allocate scan_outputs for the zero-iteration case
AllocScanOutputs(out, num_loop_carried_deps) ==
    [k \in DOMAIN out |->
        IF k > num_loop_carried_deps THEN Resize(out[k], <<0>>) ELSE out[k]]

Invoke(in) ==
    /\ pc \in {"idle", "done", "failed"}
    /\ invocations < MaxInvocations
    /\ runs < MaxRuns
    /\ invocations' = invocations + 1
    /\ Input' = in
    /\ hist' = <<>>
    /\ overrun' = FALSE
    /\ scan_outputs_sizes' = <<>>
    /\ LET n == Len(in.lcds)
       IN IF InputArityOk(n) /\ OutputArityOk(n)
          THEN /\ ws_' = InitLoopState(CopyInitial(ws_, in.lcds, 1),
                                       in.first_iter_condition)
               /\ Output' = AllocScanOutputs(Output, n)
               /\ pc' = "loop"
               /\ err' = "none"
          ELSE /\ pc' = "failed"
               /\ err' = "arity"
               /\ UNCHANGED <<ws_, Output>>
    /\ UNCHANGED <<body_net_def_, has_trip_count_, has_cond_, runs>>

\* ------------------------------------------------ the guard, lines 120-139
\* faulty variant: the trip count is never consulted
valid_iter_num_none(i) == TRUE

\* faulty variant: the trip count admits one iteration too many
valid_iter_num_le(i) ==
    IF has_trip_count_ THEN i <= Input.max_trip_count ELSE TRUE

valid_iter_num(i) ==
    IF has_trip_count_ THEN i < Input.max_trip_count ELSE TRUE

\* faulty variant: the condition is consulted whether or not it is configured
condition_true_always(i) ==
    IF i = 0 THEN Input.first_iter_condition
    ELSE ws_[condition_var_].data[1] = 1

\* faulty variant: the output condition of the body is never consulted
condition_true_first(i) ==
    IF has_cond_ THEN Input.first_iter_condition ELSE TRUE

condition_true(i) ==
    IF has_cond_
    THEN IF i = 0 THEN Input.first_iter_condition
         ELSE ws_[condition_var_].data[1] = 1
    ELSE TRUE

\* line 153
Guard == valid_iter_num(iteration_var) /\ condition_true(iteration_var)

\* ------------------------------------------- the body net run, lines 153-156
\* what the body reads from the workspace
BodyItr(w) == w[external_input[1]].data[1]
BodyCondIn(w) == w[external_input[2]].data[1]
BodyLcdIn(w) == [j \in 1..NumLcd |-> Logical(w[external_input[j + 2]])]

ApplyFn(f, t) ==
    IF f = "inc" THEN Mk(t.dims, [p \in 1..Len(t.data) |-> t.data[p] + 1])
    ELSE IF f = "grow" THEN Mk(<<Len(t.data) + 1>>, Append(t.data, 0))
    ELSE t

\* the slice a body emits for scan output k with shape sh: consecutive
\* numbers starting at its first new loop-carried value when it has one
ScanSeed(w, lcd_out, k) ==
    IF NumLcd >= 1 THEN lcd_out[1].data[1]
    ELSE 100 * (BodyItr(w) + 1) + 10 * k

ScanSlice(sh, seed) == Mk(sh, [p \in 1..Prod(sh) |-> seed + p - 1])

\* the outputs of one run, in the order of external_output
BodyOutputs(w, c, shs) ==
    LET lcd_out == [j \in 1..NumLcd |->
                        ApplyFn(body_net_def_.op, BodyLcdIn(w)[j])]
    IN <<Scalar(c)>> \o lcd_out \o
       [k \in 1..(Len(external_output) - 1 - NumLcd) |->
            ScanSlice(shs[k], ScanSeed(w, lcd_out, k))]

\* the body stores its outputs in the blobs named by external_output
RECURSIVE BodyWrite(_, _, _)
BodyWrite(w, outs, k) ==
    IF k > Len(outs) THEN w
    ELSE BodyWrite([w EXCEPT ![external_output[k]] = outs[k]], outs, k + 1)

\* the record of one run: what the body read and, when it succeeded, wrote
RunRecord(w, ok, outs) ==
    [itr |-> BodyItr(w), cond_in |-> BodyCondIn(w), lcd_in |-> BodyLcdIn(w),
     ok |-> ok,
     cond_out |-> IF ok THEN outs[1].data[1] ELSE 0,
     lcd_out |-> IF ok THEN SubSeq(outs, 2, NumLcd + 1) ELSE <<>>,
     scan |-> IF ok THEN SubSeq(outs, NumLcd + 2, Len(outs)) ELSE <<>>]

\* faulty variant: the result of the run is ignored
BodyResult_ignored(ok) == "ran"

\* if (!body_net_->Run()) return false;
BodyResult(ok) == IF ok THEN "ran" ELSE "failed"

RunBody(ok, c, shs) ==
    /\ pc = "loop"
    /\ Guard
    /\ runs < MaxRuns
    /\ runs' = runs + 1
    /\ LET outs == BodyOutputs(ws_, c, shs)
       IN /\ hist' = Append(hist, RunRecord(ws_, ok, outs))
          /\ ws_' = IF ok THEN BodyWrite(ws_, outs, 1) ELSE ws_
    /\ pc' = BodyResult(ok)
    /\ err' = IF pc' = "failed" THEN "body" ELSE err
    /\ UNCHANGED <<body_net_def_, has_trip_count_, has_cond_, Input, Output,
                   scan_outputs_sizes, overrun, invocations>>

\* --------------------------------------- after a successful run, lines 157-202
\* faulty variant: the first loop-carried output is kept in a blob created
\* for it instead of the slot made at construction
CopyForward_create(w, i) ==
    IF NumLcd = 0 THEN w
    ELSE [n \in DOMAIN w \cup {"lcd_1"} |->
             IF n \in DOMAIN w THEN w[n] ELSE w[external_output[2]]]

\* copy forward loop-carried dependencies, from the i-th on
RECURSIVE CopyForward(_, _)
CopyForward(w, i) ==
    IF i > NumLcd THEN w
    ELSE CopyForward(
           [w EXCEPT ![lcd_tensors_[i]] =
                CopyFrom(w[lcd_tensors_[i]], w[external_output[i + 1]])],
           i + 1)

\* itr == 0: record the shape, resize the target to [1] ++ dims, CopyFrom
ScanFirst(target, scan_output) ==
    CopyFrom(Resize(target, <<1>> \o scan_output.dims), scan_output)

\* faulty variant: the shape of a later slice is not checked
ScanShapeOk_any(dims, established) == TRUE

\* CAFFE_ENFORCE_EQ(dims, scan_outputs_sizes[i])
ScanShapeOk(dims, established) == dims = established

timestep_size(established) == Prod(established)

\* faulty variant: the slice is written one slot early
ScanOffset_prev(established, itr) == timestep_size(established) * (itr - 1)

\* element offset of the slice of iteration itr
ScanOffset(established, itr) == timestep_size(established) * itr

\* itr > 0: Extend(1, 2.0f) and memcpy the slice to its offset
ScanAppend(target, scan_output, established, itr) ==
    RawWrite(Extend(target, 1, GrowthFactor),
             ScanOffset(established, itr),
             SubSeq(scan_output.data, 1, timestep_size(established)))

ScanOverruns(target, scan_output, established, itr) ==
    Overruns(Extend(target, 1, GrowthFactor),
             ScanOffset(established, itr),
             SubSeq(scan_output.data, 1, timestep_size(established)))

\* faulty variant: the scan outputs are stored from Output(0) on
ScanTargetIdx_first(i) == i

\* Output(i + num_loop_carried_deps), as an index of Output
ScanTargetIdx(i) == i + NumLcd

\* copy out scan_outputs, from the i-th on; st = [out, sizes, failed, overrun]
RECURSIVE ScanLoop(_, _, _, _)
ScanLoop(st, w, itr, i) ==
    IF st.failed \/ i > Len(external_output) - 1 - NumLcd THEN st
    ELSE LET scan_output == w[external_output[i + 1 + NumLcd]]
             k == ScanTargetIdx(i)
         IN IF itr = 0
            THEN ScanLoop([st EXCEPT
                             !.sizes = Append(st.sizes, scan_output.dims),
                             !.out[k] = ScanFirst(st.out[k], scan_output)],
                          w, itr, i + 1)
            ELSE IF ~ScanShapeOk(scan_output.dims, st.sizes[i])
            THEN [st EXCEPT !.failed = TRUE]
            ELSE ScanLoop([st EXCEPT
                             !.out[k] = ScanAppend(st.out[k], scan_output,
                                                   st.sizes[i], itr),
                             !.overrun = st.overrun \/
                                 ScanOverruns(st.out[k], scan_output,
                                              st.sizes[i], itr)],
                          w, itr, i + 1)

\* faulty variant: the iteration variable is not incremented
Advance_keep(w) ==
    [w EXCEPT ![input_condition_var_] =
         RawWrite(w[input_condition_var_], 0, <<w[condition_var_].data[1]>>)]

\* faulty variant: the condition is carried forward only when has_cond_
Advance_ifcond(w) ==
    LET w1 == [w EXCEPT ![iteration_var_] =
                   RawWrite(w[iteration_var_], 0,
                            <<w[iteration_var_].data[1] + 1>>)]
    IN IF has_cond_
       THEN [w1 EXCEPT ![input_condition_var_] =
                RawWrite(w1[input_condition_var_], 0,
                         <<w1[condition_var_].data[1]>>)]
       ELSE w1

\* *iteration_var_ptr += 1; *input_condition_var_ptr = *condition_var_ptr;
Advance(w) ==
    LET w1 == [w EXCEPT ![iteration_var_] =
                   RawWrite(w[iteration_var_], 0,
                            <<w[iteration_var_].data[1] + 1>>)]
    IN [w1 EXCEPT ![input_condition_var_] =
            RawWrite(w1[input_condition_var_], 0, <<w1[condition_var_].data[1]>>)]

\* a memcpy past the end of its target is undefined behaviour: the process
\* goes on with whatever landed in the tensor, or dies
AfterWrite(ov) == IF ov THEN {"loop", "crashed"} ELSE {"loop"}

AfterRun ==
    /\ pc = "ran"
    /\ LET w1 == CopyForward(ws_, 1)
           st == ScanLoop([out |-> Output, sizes |-> scan_outputs_sizes,
                           failed |-> FALSE, overrun |-> overrun],
                          w1, iteration_var, 1)
       IN /\ Output' = st.out
          /\ scan_outputs_sizes' = st.sizes
          /\ overrun' = st.overrun
          /\ IF st.failed
             THEN /\ ws_' = w1
                  /\ pc' = "failed"
                  /\ err' = "shape"
             ELSE /\ ws_' = Advance(w1)
                  /\ pc' \in AfterWrite(st.overrun)
                  /\ err' = err
    /\ UNCHANGED <<body_net_def_, has_trip_count_, has_cond_, Input, hist,
                   invocations, runs>>

\* ---------------------------------------------- leaving the loop, lines 198-217
\* faulty variant: the final values are always taken from the inputs
FinalOutputs_initial(out, w, itr) ==
    [k \in DOMAIN out |->
        IF k > NumLcd THEN out[k] ELSE CopyFrom(out[k], Input.lcds[k])]

\* copy out final loop-carried dependencies
FinalOutputs(out, w, itr) ==
    [k \in DOMAIN out |->
        IF k > NumLcd THEN out[k]
        ELSE IF itr > 0 THEN CopyFrom(out[k], w[lcd_tensors_[k]])
        ELSE CopyFrom(out[k], Input.lcds[k])]

Finish ==
    /\ pc = "loop"
    /\ ~Guard
    /\ Output' = FinalOutputs(Output, ws_, iteration_var)
    /\ pc' = "done"
    /\ UNCHANGED <<body_net_def_, has_trip_count_, has_cond_, ws_, Input,
                   scan_outputs_sizes, err, overrun, hist, invocations, runs>>

NumScan == Len(external_output) - 1 - NumLcd

Next ==
    \/ \E in \in Inputs : Invoke(in)
    \/ \E ok \in BOOLEAN, c \in 0..1, shs \in [1..NumScan -> Shapes] :
          RunBody(ok, c, shs)
    \/ AfterRun
    \/ Finish

Spec == Init /\ [][Next]_vars

\* ===================================================================
\* Properties
\* ===================================================================
Last(q) == q[Len(q)]

\* a step of the current invocation ran the body
BodyRan == runs' = runs + 1

\* the number of successful body runs of the current invocation
Taken == Cardinality({t \in 1..Len(hist) : hist[t].ok})

\* C1: at iteration number i the body is run iff (no trip count or
\* i < max_trip_count) and (no condition or, for i = 0, the caller's
\* first-iteration condition, for i > 0 the output condition the body wrote
\* at iteration i-1); when this is false the controller goes to DONE without
\* running the body.
C1_Expected ==
    /\ (~has_trip_count_ \/ iteration_var < Input.max_trip_count)
    /\ (~has_cond_ \/ IF iteration_var = 0 THEN Input.first_iter_condition
                      ELSE Last(hist).cond_out = 1)

C1_GuardDecides ==
    [][pc = "loop" =>
         /\ BodyRan <=> C1_Expected
         /\ ~C1_Expected => (pc' = "done" /\ hist' = hist)]_vars

C1_Witness ==
    /\ pc = "done"
    /\ has_trip_count_ /\ has_cond_
    /\ Len(hist) = 2
    /\ Input.max_trip_count = 3
    /\ Last(hist).cond_out = 0

\* C2: trip count enabled, condition disabled, max_trip_count = T >= 1 and a
\* body that adds 1 to its single scalar loop-carried value and emits the new
\* value as its one scan output: a successful invocation ends with the
\* initial value plus T and the scan output [initial+1, ..., initial+T].
IncrementBody ==
    /\ NumLcd = 1 /\ NumScan = 1
    /\ \A t \in 1..Len(hist) :
          /\ hist[t].ok
          /\ hist[t].lcd_out[1] = Scalar(hist[t].lcd_in[1].data[1] + 1)
          /\ hist[t].scan[1] = hist[t].lcd_out[1]

C2_IncrementLoop ==
    (/\ pc = "done"
     /\ has_trip_count_ /\ ~has_cond_
     /\ Input.max_trip_count >= 1
     /\ IncrementBody)
    => LET T == Input.max_trip_count
           initial == Input.lcds[1].data[1]
       IN /\ Taken = T
          /\ Logical(Output[1]) = Scalar(initial + T)
          /\ Head(Output[2].dims) = T
          /\ Content(Output[2]) = [t \in 1..T |-> initial + t]

C2_Witness ==
    /\ pc = "done"
    /\ has_trip_count_ /\ ~has_cond_
    /\ Input.max_trip_count = 3
    /\ IncrementBody
    /\ Len(hist) = 3

\* C3: an invocation that runs zero iterations (max_trip_count <= 0 with the
\* trip count enabled, or a false first-iteration condition with the
\* condition enabled), also after earlier invocations that ran iterations,
\* ends with every final loop-carried value equal to the initial one and
\* every scan output empty.
ZeroIterationInputs ==
    \/ has_trip_count_ /\ Input.max_trip_count <= 0
    \/ has_cond_ /\ ~Input.first_iter_condition

C3_ZeroIterations ==
    /\ (pc \in {"loop", "ran", "done"} /\ ZeroIterationInputs) => hist = <<>>
    /\ (pc = "done" /\ hist = <<>>) =>
          /\ \A j \in 1..NumLcd : Logical(Output[j]) = Input.lcds[j]
          /\ \A k \in 1..NumScan :
                Logical(Output[NumLcd + k]) = Mk(<<0>>, <<>>)

C3_Witness ==
    /\ pc = "done" /\ hist = <<>>
    /\ invocations = 2
    /\ NumLcd = 1 /\ NumScan = 1
    /\ Len(Output[2].data) >= 2
    /\ Logical(Output[1]) = Input.lcds[1]

\* C4 as stated: condition enabled and a body that writes a true output
\* condition in its first run and a false one in its second: exactly 2
\* iterations run, whatever the trip count configuration.
FalseAfterSecond ==
    \A t \in 1..Len(hist) :
       /\ hist[t].ok
       /\ hist[t].itr = 0 => hist[t].cond_out = 1
       /\ hist[t].itr = 1 => hist[t].cond_out = 0

C4_Original ==
    (/\ pc = "done"
     /\ has_cond_ /\ Input.first_iter_condition
     /\ FalseAfterSecond)
    => Taken = 2

\* C4 amended: ... exactly 2 iterations run when the first-iteration
\* condition is true and the trip count is disabled or max_trip_count >= 2;
\* with the trip count enabled and max_trip_count < 2, max(0, max_trip_count)
\* iterations run; never more than 2.
C4_TwoIterations ==
    (has_cond_ /\ FalseAfterSecond) =>
       /\ Taken <= 2
       /\ (pc = "done" /\ Input.first_iter_condition) =>
             Taken = IF has_trip_count_ /\ Input.max_trip_count < 2
                     THEN Max(0, Input.max_trip_count) ELSE 2

C4_Witness ==
    /\ pc = "done"
    /\ has_cond_ /\ has_trip_count_
    /\ Input.max_trip_count = 3
    /\ FalseAfterSecond
    /\ Taken = 2

\* the slices the body emitted for scan output k in its first t runs, in
\* iteration order
RECURSIVE ConcatSlices(_, _)
ConcatSlices(k, t) ==
    IF t = 0 THEN <<>> ELSE ConcatSlices(k, t - 1) \o hist[t].scan[k].data

\* the body emitted the same per-iteration shape for scan output k all along
ConsistentShape(k) ==
    \A t \in 1..Len(hist) : hist[t].ok /\ hist[t].scan[k].dims = hist[1].scan[k].dims

\* C5: after a successful invocation of T >= 1 iterations, every scan output
\* whose per-iteration shape S was consistent has shape [T] ++ S and holds
\* the T slices in iteration order.
C5_Original ==
    (pc = "done" /\ Taken >= 1) =>
       \A k \in 1..NumScan :
          ConsistentShape(k) =>
             /\ Output[NumLcd + k].dims = <<Taken>> \o hist[1].scan[k].dims
             /\ Content(Output[NumLcd + k]) = ConcatSlices(k, Taken)

\* what the code yields instead: the shape of the first slice with its
\* leading dimension grown by T - 1
C5_Actual ==
    (pc = "done" /\ Taken >= 1) =>
       \A k \in 1..NumScan :
          ConsistentShape(k) =>
             LET S == hist[1].scan[k].dims
             IN Output[NumLcd + k].dims = <<Head(S) + Taken - 1>> \o Tail(S)

\* the last body run emitted, at an iteration i > 0, a shape for scan output
\* k that differs from the one of iteration 0
Drift(k) ==
    /\ Len(hist) >= 2
    /\ Last(hist).ok
    /\ Last(hist).scan[k].dims # hist[1].scan[k].dims

\* C6 as stated: on such a drift the invocation fails, and scan output k
\* holds no slice written by this invocation when it fails.
C6_Original ==
    \A k \in 1..NumScan :
       (Drift(k) /\ pc # "ran") =>
          /\ pc = "failed"
          /\ size(Output[NumLcd + k]) = 0

\* C6 amended: on such a drift the invocation fails before it stores that
\* iteration's slice in scan output k; the slices of the iterations before
\* it stay in scan output k.
C6_DriftFails ==
    [][\A k \in 1..NumScan :
          (pc = "ran" /\ Drift(k)) =>
             /\ pc' = "failed" /\ err' = "shape"
             /\ Output'[NumLcd + k] = Output[NumLcd + k]
             /\ SubSeq(Output'[NumLcd + k].data, 1, size(hist[1].scan[k]))
                   = hist[1].scan[k].data
             /\ ws_'[iteration_var_] = ws_[iteration_var_]]_vars

C6_Witness ==
    /\ pc = "failed" /\ err = "shape"
    /\ NumScan = 2
    /\ Drift(2) /\ ~Drift(1)
    /\ Len(hist) = 3
    /\ size(Output[NumLcd + 2]) >= 2

\* C7: when the body run fails, the invocation fails at once: the body is
\* not run again in that invocation, and no copy-forward, scan accumulation
\* or iteration-number increment follows the failed run.
C7_BodyFailure ==
    [][/\ (BodyRan /\ ~Last(hist').ok) =>
             /\ pc' = "failed" /\ err' = "body"
             /\ Output' = Output
             /\ ws_'[iteration_var_] = ws_[iteration_var_]
             /\ \A j \in 1..NumLcd : ws_'[lcd_tensors_[j]] = ws_[lcd_tensors_[j]]
       /\ (hist # <<>> /\ ~Last(hist).ok) =>
             /\ pc = "failed"
             /\ invocations' = invocations + 1 /\ hist' = <<>>]_vars

C7_Witness ==
    /\ pc = "failed" /\ err = "body"
    /\ Len(hist) = 2
    /\ ~Last(hist).ok
    /\ iteration_var = 1

\* the invocation failed after at least one successful iteration
FailedAfterProgress == pc = "failed" /\ err \in {"body", "shape"} /\ Taken >= 1

ArityMismatch(in) ==
    \/ Len(external_input) # Len(in.lcds) + 2
    \/ Len(external_output) < Len(in.lcds) + 1

C9_ArityFails ==
    [][/\ (invocations' = invocations + 1 /\ ArityMismatch(Input')) =>
             /\ pc' = "failed" /\ err' = "arity"
             /\ ws_' = ws_ /\ Output' = Output /\ runs' = runs
       /\ (pc = "failed" /\ err = "arity") =>
             invocations' = invocations + 1]_vars

C9_Witness ==
    /\ pc = "failed" /\ err = "arity"
    /\ invocations = 2
    /\ runs >= 1
    /\ NumLcd >= 1
    /\ Len(external_input) # Len(Input.lcds) + 2
    /\ ws_[lcd_tensors_[1]] # Input.lcds[1]

\* C10: with neither trip count nor condition configured, the controller
\* never reaches DONE and every step from the loop head is a body run,
\* whatever max_trip_count, first-iteration condition and output conditions.
C10_Unbounded ==
    [][(~has_trip_count_ /\ ~has_cond_) =>
          /\ pc' # "done"
          /\ pc = "loop" => BodyRan]_vars

C10_Witness ==
    /\ ~has_trip_count_ /\ ~has_cond_
    /\ pc = "loop"
    /\ Len(hist) = 3
    /\ Input.max_trip_count <= 0 /\ ~Input.first_iter_condition
    /\ Last(hist).cond_out = 0

\* C11: no invocation adds a blob to the workspace or moves a slot: the set
\* of blob names and the blobs the controller's pointers designate are those
\* of construction, and every step only overwrites contents.
C11_NoNewBuffer ==
    [][/\ DOMAIN ws_' = DOMAIN ws_
       /\ DOMAIN ws_' = Range(external_input) \cup Range(external_output)
       /\ <<iteration_var_, input_condition_var_, condition_var_,
            lcd_tensors_>>' =
          <<iteration_var_, input_condition_var_, condition_var_,
            lcd_tensors_>>]_vars

\* a second invocation has run the body and finished, after a first that
\* ran it too
C11_Witness ==
    /\ invocations = 2
    /\ pc = "done"
    /\ Taken >= 1
    /\ runs > Len(hist)
    /\ NumLcd >= 1
    /\ ws_[lcd_tensors_[1]] # NewTensor

\* C12 as stated: after a successful invocation of at least one iteration
\* every final loop-carried output has the shape of the caller's initial
\* value.
C12_Original ==
    (pc = "done" /\ Taken >= 1) =>
        \A j \in 1..NumLcd : Output[j].dims = Input.lcds[j].dims

\* C12: after a successful invocation of at least one iteration every final
\* loop-carried output has the shape of its persistent slot, which is the
\* shape last copied forward; it is the shape of the initial value when every
\* loop-carried tensor the body emitted in the last run has that shape.
C12_FinalShape ==
    (pc = "done" /\ Taken >= 1) =>
        \A j \in 1..NumLcd :
            /\ Output[j].dims = ws_[lcd_tensors_[j]].dims
            /\ (\A k \in 1..NumLcd :
                    Last(hist).lcd_out[k].dims = Input.lcds[j].dims)
                 => Output[j].dims = Input.lcds[j].dims

\* a body that lengthens its loop-carried value ran twice and the invocation
\* succeeded
C12_Witness ==
    /\ pc = "done"
    /\ Taken = 2
    /\ NumLcd = 1
    /\ Input.lcds[1].dims = <<1>>
    /\ Output[1].dims = <<3>>

\* C13 as stated: the loop-carried values a run reads are those the previous
\* run produced, index by index, for every naming of the body's inputs and
\* outputs.
C13_Original ==
    \A t \in 2..Len(hist) : \A j \in 1..NumLcd :
        hist[t].lcd_in[j] = hist[t - 1].lcd_out[j]

\* C14 as stated: the slice written at an iteration i > 0 lies inside the
\* logical extent its scan output has after the Extend, so that after the
\* write of iteration i the output holds at least i + 1 slices, and no write
\* goes past the storage.
C14_Original ==
    (pc \in {"loop", "crashed"} /\ iteration_var >= 2) =>
        /\ ~overrun
        /\ \A k \in 1..NumScan :
               iteration_var * timestep_size(scan_outputs_sizes[k])
                   <= size(Output[ScanTargetIdx(k)])

\* C15 as stated: at DONE after at least one iteration every final
\* loop-carried output equals its persistent slot, which equals what the last
\* run of the body produced for that index.
C15_Original ==
    (pc = "done" /\ Taken >= 1) =>
        \A j \in 1..NumLcd :
            /\ Logical(Output[j]) = Logical(ws_[lcd_tensors_[j]])
            /\ Logical(ws_[lcd_tensors_[j]]) = Last(hist).lcd_out[j]

\* C16: the k-th run of the body (from 0) reads iteration number k; the
\* iteration variable is the number of completed runs whenever the loop head
\* is evaluated and at DONE, and one less between a run and its
\* bookkeeping: it starts at 0 and moves by one per taken iteration only.
C16_IterationNumber ==
    /\ \A t \in 1..Len(hist) : hist[t].itr = t - 1
    /\ pc \in {"loop", "done", "crashed"} => iteration_var = Taken
    /\ pc = "ran" => iteration_var = Taken - 1

\* an invocation finished after two runs that read 0 and 1
C16_Witness ==
    /\ pc = "done"
    /\ Len(hist) = 2
    /\ hist[1].itr = 0
    /\ hist[2].itr = 1
    /\ iteration_var = 2

\* C17: every run after the first reads, as its input condition, the output
\* condition the run before it wrote, and after every taken iteration the
\* input condition blob holds the last output condition, with or without
\* has_cond_.
C17_ConditionCarried ==
    /\ \A t \in 2..Len(hist) : hist[t].cond_in = hist[t - 1].cond_out
    /\ (pc \in {"loop", "done", "crashed"} /\ Taken >= 1) =>
           ws_[input_condition_var_].data[1] = Last(hist).cond_out

\* without has_cond_ the second run reads the false the first one wrote,
\* after a first run that read true
C17_Witness ==
    /\ ~has_cond_
    /\ Len(hist) >= 2
    /\ hist[1].cond_in = 1
    /\ hist[1].cond_out = 0
    /\ hist[2].cond_in = 0

\* C18 as stated: the first run reads the caller's first-iteration condition
\* when has_cond_, and true when it is not, whatever the caller passed.
C18_Original ==
    hist # <<>> =>
        hist[1].cond_in =
            IF has_cond_ THEN B2I(Input.first_iter_condition) ELSE 1

\* an upper bound on the steps an invocation with a trip count still
\* takes: two per iteration the trip count leaves (the run of the body and
\* the bookkeeping after it) and one to leave the loop
C19_StepsLeft ==
    IF pc = "loop" THEN 2 * Max(0, Input.max_trip_count - iteration_var) + 1
    ELSE IF pc = "ran" THEN 2 * Max(0, Input.max_trip_count - iteration_var)
    ELSE 0

\* C19: with has_trip_count_ an invocation never runs the body more than
\* max(0, max_trip_count) times, whatever has_cond_ and the output conditions
\* are, and it ends: every step it takes from its loop brings it strictly
\* closer to DONE, to a failure or to the death of the process, of which it
\* reaches one within 2 max(0, max_trip_count) + 1 steps; DONE is left only
\* by the next invocation.
C19_Terminates ==
    /\ [](has_trip_count_ => Len(hist) <= Max(0, Input.max_trip_count))
    /\ [][(has_trip_count_ /\ pc \in {"loop", "ran"}) =>
              /\ C19_StepsLeft' < C19_StepsLeft
              /\ C19_StepsLeft' >= 0
              /\ C19_StepsLeft' = 0 <=> pc' \in {"done", "failed", "crashed"}]_vars
    /\ [][pc = "done" => invocations' = invocations + 1]_vars

\* the trip count alone ended a loop whose body asked for more
C19_Witness ==
    /\ pc = "done"
    /\ has_trip_count_
    /\ ~has_cond_
    /\ Input.max_trip_count = 2
    /\ Len(hist) = 2
    /\ Last(hist).cond_out = 1

\* what the first t runs of the current invocation, with the outputs its body
\* produced, make of a controller that was never invoked before: the
\* workspace and the scan state [out, sizes, failed, overrun]
RECURSIVE C20_Replay(_)
C20_Replay(t) ==
    IF t = 0
    THEN [w  |-> InitLoopState(
                     CopyInitial([n \in DOMAIN ws_ |-> NewTensor],
                                 Input.lcds, 1),
                     Input.first_iter_condition),
          st |-> [out |-> AllocScanOutputs([k \in DOMAIN Output |-> NewTensor],
                                           Len(Input.lcds)),
                  sizes |-> <<>>, failed |-> FALSE, overrun |-> FALSE]]
    ELSE LET p  == C20_Replay(t - 1)
             w1 == CopyForward(
                       BodyWrite(p.w, <<Scalar(hist[t].cond_out)>>
                                        \o hist[t].lcd_out \o hist[t].scan, 1),
                       1)
             st == ScanLoop(p.st, w1, p.w[iteration_var_].data[1], 1)
         IN [w |-> IF st.failed THEN w1 ELSE Advance(w1), st |-> st]

\* what the next run of the body would read from workspace w
C20_Presented(w) ==
    <<w[iteration_var_].data[1], w[input_condition_var_].data[1],
      [j \in 1..NumLcd |-> Logical(w[lcd_tensors_[j]])]>>

\* the state of the current invocation agrees with that of a controller
\* never invoked before, in all that makes the outcome
C20_SameAsFresh ==
    LET rp == C20_Replay(Len(hist))
    IN /\ C20_Presented(ws_) = C20_Presented(rp.w)
       /\ iteration_var > 0 =>
              ws_[condition_var_].data[1] = rp.w[condition_var_].data[1]
       /\ scan_outputs_sizes = rp.st.sizes
       /\ pc = "done" =>
              \A k \in DOMAIN Output :
                  Logical(Output[k]) =
                      Logical(FinalOutputs(rp.st.out, rp.w, iteration_var)[k])

\* C20 as stated: whatever earlier invocations left behind, an invocation
\* runs the body on the values, establishes the scan shapes and, at DONE,
\* delivers the outputs that a controller never invoked before would, given
\* the same inputs and the same body outputs; nothing of it is left to what
\* a write outside a tensor's storage happens to do.
C20_Original ==
    pc \in {"loop", "done", "crashed"} => (C20_SameAsFresh /\ ~overrun)

====
